---------------------------- MODULE Spec2Model ----------------------------
(***************************************************************************)
(* install_fabric of src/installer/fabric.rs: the resolution of the        *)
(* version id, the assembly of the library list, the selection of the main *)
(* class and the remove-then-write of the version JSON on disk.            *)
(***************************************************************************)
EXTENDS Naturals, Sequences, FiniteSets, TLC

VARIABLES
    loader,             \* the FabricLoaderArtifact argument
    minecraft_location, \* the MinecraftLocation argument
    options,            \* the FabricInstallOptions argument
    remaining,          \* per caller: the install calls it still makes
    pc,                 \* per caller: the position of its install call
    locals,             \* per caller: the locals of its install call
    fd,                 \* per caller: the inode its open file handle names
    seen,               \* per caller: the entry its fs::metadata looked at
    failed,             \* per caller: the filesystem steps that failed
    raced,              \* per caller: a remove or create acted on an entry changed since its check
    ret,                \* per caller: the id the last completed call returned
    history,            \* the returned id and the file left by each completed call
    fs,                 \* the filesystem: path -> entry
    nextIno             \* the next unused inode number

vars == <<loader, minecraft_location, options, remaining, pc, locals, fd,
          seen, failed, raced, ret, history, fs, nextIno>>

(***************************** bounds **************************************)
MaxCalls == 2
MaxLibs == 2

Callers == {1, 2}

(***************************** Option<T> ***********************************)
None == <<>>
Some(x) == <<x>>
IsSome(o) == Len(o) = 1
Unwrap(o) == o[1]
UnwrapOr(o, d) == IF IsSome(o) THEN o[1] ELSE d

(************************ serde_json::Value ********************************)
Null == [t |-> "Null"]
String(s) == [t |-> "String", s |-> s]
Number(n) == [t |-> "Number", n |-> n]
Object(m) == [t |-> "Object", m |-> m]

\* Value's Index<&str>: the member of an object, Null for anything else
Index(v, key) ==
    IF v.t = "Object" /\ key \in DOMAIN v.m THEN v.m[key] ELSE Null

\* Value::as_str
AsStr(v) == IF v.t = "String" THEN Some(v.s) ELSE None

(************************** the records ************************************)
FabricArtifactVersion(maven, version) ==
    [gameVersion |-> None, separator |-> None, build |-> None,
     maven |-> maven, version |-> version, stable |-> TRUE]

LauncherMetaLibrariesItems(name, url) == [name |-> name, url |-> url]

YarnString(s) == [tag |-> "String", s |-> s]
YarnFabricArtifactVersion(v) == [tag |-> "FabricArtifactVersion", v |-> v]

MavenUrl == "https://maven.fabricmc.net/"

RECURSIVE SeqsUpTo(_, _)
\* the sequences over S of length at most n
SeqsUpTo(S, n) ==
    IF n = 0 THEN {<<>>}
    ELSE LET shorter == SeqsUpTo(S, n - 1)
         IN  shorter \cup {Append(s, x) : s \in shorter, x \in S}

(************************* the input domains *******************************)
LoaderVersions == {"0.1.0.48"}
IntermediaryVersions == {"", "1.19.4"}

CommonItems ==
    {LauncherMetaLibrariesItems(Some("org.ow2.asm:asm:9.4"), Some(MavenUrl)),
     LauncherMetaLibrariesItems(Some("net.fabricmc:tiny-remapper:0.8.2"), None)}

\* the client lists and the server lists of the bundles
ClientLists ==
    {<<>>,
     <<LauncherMetaLibrariesItems(Some("net.fabricmc:client-b:1"), Some(MavenUrl)),
       LauncherMetaLibrariesItems(Some("net.fabricmc:client-a:1"), Some(MavenUrl))>>}
ServerLists ==
    {<<>>, <<LauncherMetaLibrariesItems(None, Some(MavenUrl))>>}

MainClassValues ==
    {String("net.fabricmc.loader.launch.knot.Knot"),
     Object([client |-> String("KnotClient"), server |-> String("KnotServer")]),
     Object([client |-> String("KnotClient")]),
     Object([server |-> String("KnotServer")]),
     Object([client |-> Number(1), server |-> Null]),
     Null}

Loaders ==
    {[loader |-> FabricArtifactVersion("net.fabricmc:fabric-loader:" \o lv, lv),
      intermediary |-> FabricArtifactVersion("net.fabricmc:intermediary:" \o iv, iv),
      launcherMeta |->
          [version |-> 1,
           libraries |-> [client |-> cl, common |-> co, server |-> se],
           mainClass |-> mc]] :
        lv \in LoaderVersions, iv \in IntermediaryVersions,
        cl \in ClientLists, co \in SeqsUpTo(CommonItems, MaxLibs),
        se \in ServerLists, mc \in MainClassValues}

YarnVersions ==
    {None, Some(YarnString("1.19.4+build.2")),
     Some(YarnFabricArtifactVersion(
         FabricArtifactVersion("net.fabricmc:yarn:1.19.4+build.1", "1.19.4+build.1")))}

Options ==
    [inherits_from : {None, Some("1.19.3")},
     version_id : {None, Some("my-fabric"), Some("")},
     size : {None, Some("Client"), Some("Server")},
     yarn_version : YarnVersions]

Locations == {"test"}

(******************* install_fabric: resolve and assemble ******************)
\* let side = options.size.unwrap_or(FabricInstallSide::Client)
Side(o) == UnwrapOr(o.size, "Client")

\* match options.yarn_version: the version string of either selector form
Yarn(o) ==
    IF IsSome(o.yarn_version)
    THEN LET yarn_version == Unwrap(o.yarn_version)
         IN  IF yarn_version.tag = "String"
             THEN Some(yarn_version.s)
             ELSE Some(yarn_version.v.version)
    ELSE None

\* minecraft_version: "" unless the None arm assigns the intermediary version
MinecraftVersion(l, o) ==
    IF IsSome(o.yarn_version) THEN "" ELSE l.intermediary.version

\* a resolver that takes the loader tag whatever the mapping choice
IdAlwaysFabric(l, o) ==
    IF IsSome(o.version_id) THEN o.version_id
    ELSE Some(MinecraftVersion(l, o) \o "-fabric" \o l.loader.version)

\* id: the override, else "{}-loader{}" with yarn and "{}-fabric{}" without
Id(l, o) ==
    IF IsSome(o.version_id) THEN o.version_id
    ELSE IF IsSome(Yarn(o))
         THEN Some(MinecraftVersion(l, o) \o "-loader" \o l.loader.version)
         ELSE Some(MinecraftVersion(l, o) \o "-fabric" \o l.loader.version)

\* the side's list of the bundle
SideLibraries(l, o) ==
    IF Side(o) = "Client"
    THEN l.launcherMeta.libraries.client
    ELSE l.launcherMeta.libraries.server

\* an assembly that puts the side's list before the common list
LibrariesSideFirst(l, o) ==
    <<LauncherMetaLibrariesItems(Some(l.loader.maven), Some(MavenUrl)),
      LauncherMetaLibrariesItems(Some(l.intermediary.maven), Some(MavenUrl))>>
    \o (IF IsSome(Yarn(o))
        THEN <<LauncherMetaLibrariesItems(
                   Some("net.fabricmc:yarn:" \o Unwrap(Yarn(o))), Some(MavenUrl))>>
        ELSE <<>>)
    \o SideLibraries(l, o)
    \o l.launcherMeta.libraries.common

\* libraries: vec![loader, intermediary], push yarn, extend common, extend side
Libraries(l, o) ==
    <<LauncherMetaLibrariesItems(Some(l.loader.maven), Some(MavenUrl)),
      LauncherMetaLibrariesItems(Some(l.intermediary.maven), Some(MavenUrl))>>
    \o (IF IsSome(Yarn(o))
        THEN <<LauncherMetaLibrariesItems(
                   Some("net.fabricmc:yarn:" \o Unwrap(Yarn(o))), Some(MavenUrl))>>
        ELSE <<>>)
    \o l.launcherMeta.libraries.common
    \o SideLibraries(l, o)

\* a selector that reads the "client" key for both sides
MainClassClientOnly(l, o) ==
    UnwrapOr(AsStr(Index(l.launcherMeta.mainClass, "client")),
             UnwrapOr(AsStr(l.launcherMeta.mainClass), ""))

\* main_class: mainClass[side].as_str().unwrap_or(mainClass.as_str().unwrap_or(""))
MainClass(l, o) ==
    IF Side(o) = "Client"
    THEN UnwrapOr(AsStr(Index(l.launcherMeta.mainClass, "client")),
                  UnwrapOr(AsStr(l.launcherMeta.mainClass), ""))
    ELSE UnwrapOr(AsStr(Index(l.launcherMeta.mainClass, "server")),
                  UnwrapOr(AsStr(l.launcherMeta.mainClass), ""))

\* a resolver that takes the intermediary version whatever the mapping choice
InheritsFromIntermediary(l, o) ==
    UnwrapOr(o.inherits_from, l.intermediary.version)

\* inherits_from: options.inherits_from.unwrap_or(minecraft_version)
InheritsFrom(l, o) == UnwrapOr(o.inherits_from, MinecraftVersion(l, o))

\* MinecraftLocation::get_version_json: <root>/versions/<id>/<id>.json
GetVersionJson(location, version) ==
    <<location, "versions", version, version \o ".json">>

\* Path::parent
Parent(path) == SubSeq(path, 1, Len(path) - 1)

\* json_file_path
JsonFilePath(location, l, o) == GetVersionJson(location, Unwrap(Id(l, o)))

(************************** serialisation **********************************)
\* serde_json's text of an Option<String> (the model's strings need no escapes)
OptionText(opt) == IF IsSome(opt) THEN "\"" \o Unwrap(opt) \o "\"" ELSE "null"

ItemText(item) ==
    "{\"name\":" \o OptionText(item.name) \o ",\"url\":" \o OptionText(item.url) \o "}"

RECURSIVE ItemsText(_)
ItemsText(items) ==
    IF Len(items) = 0 THEN ""
    ELSE IF Len(items) = 1 THEN ItemText(items[1])
    ELSE ItemText(items[1]) \o "," \o ItemsText(Tail(items))

\* serde_json::to_string(&libraries): the compact text of the list
ToJsonString(items) == "[" \o ItemsText(items) \o "]"

\* a timestamp taken when the call runs instead of the constant
ReleaseTimeNow ==
    IF \E c \in Callers : remaining[c] = 1 THEN "2023-05-13T15:58:55.000Z"
    ELSE "2023-05-13T15:58:54.493Z"

ReleaseTime == "2023-05-13T15:58:54.493Z"

\* the FabricVersionJSON value
VersionJson(l, o) ==
    [id |-> UnwrapOr(Id(l, o), ""),
     inheritsFrom |-> InheritsFrom(l, o),
     mainClass |-> MainClass(l, o),
     libraries |-> ToJsonString(Libraries(l, o)),
     arguments |-> [game |-> <<>>, jvm |-> <<>>],
     releaseTime |-> ReleaseTime,
     time |-> "2023-05-13T15:58:54.493Z"]

\* serde_json::to_string_pretty(&version_json): one line per element, each
\* member line being its key and its value
ToStringPretty(v) ==
    << <<"{">>,
       <<"id", v.id>>,
       <<"inheritsFrom", v.inheritsFrom>>,
       <<"mainClass", v.mainClass>>,
       <<"libraries", v.libraries>>,
       <<"arguments", "{">>,
       <<"game", v.arguments.game>>,
       <<"jvm", v.arguments.jvm>>,
       <<"}">>,
       <<"releaseTime", v.releaseTime>>,
       <<"time", v.time>>,
       <<"}">> >>

\* json_data
JsonData(l, o) == ToStringPretty(VersionJson(l, o))

(**************************** the filesystem *******************************)
Absent == [kind |-> "absent"]
Dir(under) == [kind |-> "dir", under |-> under]
File(ino, data) == [kind |-> "file", ino |-> ino, data |-> data]

\* a descriptor an earlier installer left at the path, longer than a new one
OldData ==
    << <<"{">>,
       <<"id", "old">>,
       <<"inheritsFrom", "1.18.2">>,
       <<"mainClass", "net.minecraft.client.main.Main">>,
       <<"libraries", "[]">>,
       <<"arguments", "{">>,
       <<"game", <<>>>>,
       <<"jvm", <<>>>>,
       <<"}">>,
       <<"releaseTime", "2022-02-28T10:42:45.000Z">>,
       <<"time", "2022-02-28T10:42:45.000Z">>,
       <<"type", "release">>,
       <<"minimumLauncherVersion", "21">>,
       <<"}">> >>

\* what may be on disk before the first call: the parent missing, the parent
\* a file, or the parent a directory with the target missing, a file or a
\* directory
InitialFs(target) ==
    {(Parent(target) :> Absent) @@ (target :> Absent),
     (Parent(target) :> File(0, <<>>)) @@ (target :> Absent)}
    \cup {(Parent(target) :> Dir({})) @@ (target :> e) :
            e \in {Absent, File(0, OldData), Dir({}), Dir({"natives"})}}

\* the locals of one call, from its arguments
Locals(location, l, o) ==
    [side |-> Side(o),
     yarn |-> Yarn(o),
     id |-> Id(l, o),
     minecraft_version |-> MinecraftVersion(l, o),
     libraries |-> Libraries(l, o),
     main_class |-> MainClass(l, o),
     inherits_from |-> InheritsFrom(l, o),
     json_file_path |-> JsonFilePath(location, l, o),
     json_data |-> JsonData(l, o)]

NoLocals == [side |-> "Client"]

TargetOf(p) == locals[p].json_file_path

\* a removal that leaves the entry where it is
RemoveFileKeep(e) == e

\* the entry after fs::remove_file took effect
RemoveFileEntry(e) == Absent

\* the entry File::create leaves: a new empty file, or the old one truncated
FileCreateEntry(e, ino) ==
    IF e.kind = "file" THEN File(e.ino, <<>>) ELSE File(ino, <<>>)

\* the content after n lines of buf were written at offset 0
Written(old, buf, n) == SubSeq(buf, 1, n) \o SubSeq(old, n + 1, Len(old))

\* the target entry as the call's own steps so far would have left it: what
\* fs::metadata looked at, or nothing once the call removed that
Expected(p) ==
    IF pc[p] = "write" /\ "metadata" \notin failed[p]
    THEN Absent
    ELSE Unwrap(seen[p])

(****************************** the steps **********************************)
\* lines 138-207: the synchronous resolve and assemble phase of one call
Install(p) ==
    /\ pc[p] \in {"idle", "done"}
    /\ remaining[p] > 0
    /\ remaining' = [remaining EXCEPT ![p] = @ - 1]
    /\ locals' = [locals EXCEPT ![p] = Locals(minecraft_location, loader, options)]
    /\ pc' = [pc EXCEPT ![p] = "create_dir_all"]
    /\ fd' = [fd EXCEPT ![p] = None]
    /\ seen' = [seen EXCEPT ![p] = None]
    /\ failed' = [failed EXCEPT ![p] = {}]
    /\ raced' = [raced EXCEPT ![p] = FALSE]
    /\ ret' = [ret EXCEPT ![p] = None]
    /\ UNCHANGED <<loader, minecraft_location, options, history, fs, nextIno>>

\* line 208: fs::create_dir_all(parent).unwrap()
CreateDirAll(p) ==
    /\ pc[p] = "create_dir_all"
    /\ LET parent == Parent(TargetOf(p))
       IN  \/ /\ fs[parent].kind # "file"
              /\ fs' = [fs EXCEPT ![parent] = IF @.kind = "dir" THEN @ ELSE Dir({})]
              /\ pc' = [pc EXCEPT ![p] = "metadata"]
              /\ UNCHANGED failed
           \/ /\ UNCHANGED fs
              /\ failed' = [failed EXCEPT ![p] = @ \cup {"create_dir_all"}]
              /\ pc' = [pc EXCEPT ![p] = "panicked"]
    /\ UNCHANGED <<loader, minecraft_location, options, remaining, locals, fd,
                   seen, raced, ret, history, nextIno>>

\* lines 209-210: if let Ok(metadata) = fs::metadata(path), metadata.is_file()
MetadataStep(p) ==
    /\ pc[p] = "metadata"
    /\ LET e == fs[TargetOf(p)]
       IN  /\ seen' = [seen EXCEPT ![p] = Some(e)]
           /\ \/ /\ e.kind # "absent"
                 /\ pc' = [pc EXCEPT ![p] =
                        IF e.kind = "file" THEN "remove_file" ELSE "remove_dir_all"]
                 /\ UNCHANGED failed
              \/ /\ e.kind = "absent"
                 /\ pc' = [pc EXCEPT ![p] = "write"]
                 /\ UNCHANGED failed
              \/ /\ e.kind # "absent"
                 /\ failed' = [failed EXCEPT ![p] = @ \cup {"metadata"}]
                 /\ pc' = [pc EXCEPT ![p] = "write"]
    /\ UNCHANGED <<loader, minecraft_location, options, remaining, locals, fd,
                   raced, ret, history, fs, nextIno>>

\* the check taken under a lock that a call holds until it ends
MetadataLocked(p) ==
    /\ \A q \in Callers \ {p} :
           pc[q] \notin {"remove_file", "remove_dir_all", "write", "write_all"}
    /\ MetadataStep(p)

Metadata(p) == MetadataStep(p)

\* line 211: fs::remove_file(path).unwrap()
RemoveFile(p) ==
    /\ pc[p] = "remove_file"
    /\ LET e == fs[TargetOf(p)]
       IN  \/ /\ e.kind = "file"
              /\ fs' = [fs EXCEPT ![TargetOf(p)] = RemoveFileEntry(e)]
              /\ raced' = [raced EXCEPT ![p] = @ \/ e # Expected(p)]
              /\ pc' = [pc EXCEPT ![p] = "write"]
              /\ UNCHANGED failed
           \/ /\ UNCHANGED fs
              /\ raced' = [raced EXCEPT ![p] = @ \/ e # Expected(p)]
              /\ failed' = [failed EXCEPT ![p] = @ \cup {"remove_file"}]
              /\ pc' = [pc EXCEPT ![p] = "panicked"]
    /\ UNCHANGED <<loader, minecraft_location, options, remaining, locals, fd,
                   seen, ret, history, nextIno>>

\* line 213: fs::remove_dir_all(path).unwrap()
RemoveDirAll(p) ==
    /\ pc[p] = "remove_dir_all"
    /\ LET e == fs[TargetOf(p)]
       IN  \/ /\ e.kind = "dir"
              /\ fs' = [fs EXCEPT ![TargetOf(p)] = Absent]
              /\ raced' = [raced EXCEPT ![p] = @ \/ e # Expected(p)]
              /\ pc' = [pc EXCEPT ![p] = "write"]
              /\ UNCHANGED failed
           \/ /\ \E left \in (IF e.kind = "dir" THEN SUBSET e.under ELSE {{}}) :
                    fs' = [fs EXCEPT ![TargetOf(p)] =
                               IF e.kind = "dir" THEN Dir(left) ELSE e]
              /\ raced' = [raced EXCEPT ![p] = @ \/ e # Expected(p)]
              /\ failed' = [failed EXCEPT ![p] = @ \cup {"remove_dir_all"}]
              /\ pc' = [pc EXCEPT ![p] = "panicked"]
    /\ UNCHANGED <<loader, minecraft_location, options, remaining, locals, fd,
                   seen, ret, history, nextIno>>

\* line 246, first half: tokio::fs::write opens the file (create, truncate)
WriteCreate(p) ==
    /\ pc[p] = "write"
    /\ LET e == fs[TargetOf(p)]
       IN  \/ /\ e.kind # "dir"
              /\ fs[Parent(TargetOf(p))].kind = "dir"
              /\ fs' = [fs EXCEPT ![TargetOf(p)] = FileCreateEntry(e, nextIno)]
              /\ fd' = [fd EXCEPT ![p] = Some(FileCreateEntry(e, nextIno).ino)]
              /\ nextIno' = IF e.kind = "file" THEN nextIno ELSE nextIno + 1
              /\ raced' = [raced EXCEPT ![p] = @ \/ e # Expected(p)]
              /\ pc' = [pc EXCEPT ![p] = "write_all"]
              /\ UNCHANGED failed
           \/ /\ UNCHANGED <<fs, fd, nextIno>>
              /\ raced' = [raced EXCEPT ![p] = @ \/ e # Expected(p)]
              /\ failed' = [failed EXCEPT ![p] = @ \cup {"write"}]
              /\ pc' = [pc EXCEPT ![p] = "panicked"]
    /\ UNCHANGED <<loader, minecraft_location, options, remaining, locals,
                   seen, ret, history>>

\* lines 246-248, second half: the data is written to the open file; the
\* call returns the id when all of it was, and panics when only n lines were
WriteAll(p) ==
    /\ pc[p] = "write_all"
    /\ LET e == fs[TargetOf(p)]
           buf == locals[p].json_data
           mine == e.kind = "file" /\ Some(e.ino) = fd[p]
           after(n) == IF mine THEN File(e.ino, Written(e.data, buf, n)) ELSE e
       IN  \/ /\ fs' = [fs EXCEPT ![TargetOf(p)] = after(Len(buf))]
              /\ ret' = [ret EXCEPT ![p] = Some(UnwrapOr(locals[p].id, ""))]
              /\ history' = Append(history,
                                   [id |-> UnwrapOr(locals[p].id, ""),
                                    entry |-> after(Len(buf))])
              /\ pc' = [pc EXCEPT ![p] = "done"]
              /\ UNCHANGED failed
           \/ /\ \E n \in 0 .. (Len(buf) - 1) :
                    fs' = [fs EXCEPT ![TargetOf(p)] = after(n)]
              /\ failed' = [failed EXCEPT ![p] = @ \cup {"write"}]
              /\ pc' = [pc EXCEPT ![p] = "panicked"]
              /\ UNCHANGED <<ret, history>>
    /\ UNCHANGED <<loader, minecraft_location, options, remaining, locals, fd,
                   seen, raced, nextIno>>

Next ==
    \E p \in Callers :
        \/ Install(p)
        \/ CreateDirAll(p)
        \/ Metadata(p)
        \/ RemoveFile(p)
        \/ RemoveDirAll(p)
        \/ WriteCreate(p)
        \/ WriteAll(p)

\* the bundles and options of the runs that repeat or overlap calls
FewLoaders ==
    {l \in Loaders :
        /\ l.intermediary.version = "1.19.4"
        /\ l.launcherMeta.libraries.common = <<>>
        /\ l.launcherMeta.libraries.server = <<>>
        /\ l.launcherMeta.mainClass.t = "String"}

FewOptions ==
    {o \in Options :
        /\ o.inherits_from = None
        /\ o.size = None
        /\ IsSome(o.yarn_version) => Unwrap(o.yarn_version).tag = "String"}

\* the state before any call, for given arguments and plan of calls
InitWith(ls, os, plan) ==
    /\ loader \in ls
    /\ minecraft_location \in Locations
    /\ options \in os
    /\ remaining = plan
    /\ pc = [p \in Callers |-> "idle"]
    /\ locals = [p \in Callers |-> NoLocals]
    /\ fd = [p \in Callers |-> None]
    /\ seen = [p \in Callers |-> None]
    /\ failed = [p \in Callers |-> {}]
    /\ raced = [p \in Callers |-> FALSE]
    /\ ret = [p \in Callers |-> None]
    /\ history = <<>>
    /\ fs \in InitialFs(JsonFilePath(minecraft_location, loader, options))
    /\ nextIno = 1

\* one call, for every bundle and every option, the parent directory there
\* and the target missing, a file or a directory with content
Init ==
    /\ InitWith(Loaders, Options, (1 :> 1) @@ (2 :> 0))
    /\ fs[Parent(JsonFilePath(minecraft_location, loader, options))].kind = "dir"
    /\ fs[JsonFilePath(minecraft_location, loader, options)] # Dir({})

\* one caller that installs MaxCalls times in sequence, on every disk
InitSeq == InitWith(FewLoaders, FewOptions, (1 :> MaxCalls) @@ (2 :> 0))

\* two callers that install once each, concurrently, on every disk
InitConc == InitWith(FewLoaders, FewOptions, (1 :> 1) @@ (2 :> 1))

Spec == Init /\ [][Next]_vars

SpecSeq == InitSeq /\ [][Next]_vars

SpecConc == InitConc /\ [][Next]_vars

(***************************** the claims **********************************)
Target == JsonFilePath(minecraft_location, loader, options)

Started(p) == pc[p] # "idle"

MappingGiven == options.yarn_version # <<>>

\* the resolved base Minecraft version, as the specification words it
ClaimBase == IF MappingGiven THEN "" ELSE loader.intermediary.version

ClaimId ==
    IF options.version_id # <<>>
    THEN options.version_id[1]
    ELSE IF MappingGiven
         THEN ClaimBase \o "-loader" \o loader.loader.version
         ELSE ClaimBase \o "-fabric" \o loader.loader.version

\* the line of a written file that holds a member
Member(data, key) == data[CHOOSE i \in DOMAIN data : data[i][1] = key][2]

\* C1: the id a call resolves, returns and writes is the version-id override
\* when one is given, else "<base>-loader<loaderVersion>" with a mapping
\* selector and "<base>-fabric<loaderVersion>" without one.
C1_IdResolved ==
    \A p \in Callers :
        /\ Started(p) => locals[p].id = <<ClaimId>>
        /\ pc[p] = "done" =>
              /\ ret[p] = <<ClaimId>>
              /\ fs[Target].kind = "file"
              /\ Member(fs[Target].data, "id") = ClaimId

C1_Witness ==
    /\ pc[1] = "done"
    /\ options.version_id = <<>>
    /\ MappingGiven
    /\ loader.intermediary.version = "1.19.4"
    /\ ret[1] = <<"-loader0.1.0.48">>
    /\ Member(fs[Target].data, "id") = "-loader0.1.0.48"

ClaimYarn ==
    IF ~MappingGiven THEN <<>>
    ELSE IF options.yarn_version[1].tag = "String"
         THEN <<options.yarn_version[1].s>>
         ELSE <<options.yarn_version[1].v.version>>

ClaimSideList ==
    IF options.size = <<"Server">>
    THEN loader.launcherMeta.libraries.server
    ELSE loader.launcherMeta.libraries.client

ClaimLibraries ==
    <<[name |-> <<loader.loader.maven>>, url |-> <<"https://maven.fabricmc.net/">>],
      [name |-> <<loader.intermediary.maven>>, url |-> <<"https://maven.fabricmc.net/">>]>>
    \o (IF MappingGiven
        THEN <<[name |-> <<"net.fabricmc:yarn:" \o ClaimYarn[1]>>,
                url |-> <<"https://maven.fabricmc.net/">>]>>
        ELSE <<>>)
    \o loader.launcherMeta.libraries.common
    \o ClaimSideList

\* C2: the library list is the loader's coordinate, the intermediary's, the
\* yarn coordinate if a mapping version was resolved, the common list in its
\* order and the requested side's list in its order; its length is
\* 2 + (1 if mapping) + |common| + |side|.
C2_LibraryList ==
    \A p \in Callers :
        Started(p) =>
            /\ locals[p].libraries = ClaimLibraries
            /\ Len(locals[p].libraries) =
                   2 + (IF MappingGiven THEN 1 ELSE 0)
                     + Len(loader.launcherMeta.libraries.common)
                     + Len(ClaimSideList)

C2_Witness ==
    /\ pc[1] = "done"
    /\ MappingGiven
    /\ options.size = <<"Server">>
    /\ Len(loader.launcherMeta.libraries.common) = 2
    /\ loader.launcherMeta.libraries.common[1] # loader.launcherMeta.libraries.common[2]
    /\ Len(loader.launcherMeta.libraries.server) = 1
    /\ Len(loader.launcherMeta.libraries.client) = 2
    /\ Len(locals[1].libraries) = 6

\* C3: every descriptor written has a non-empty id, and a call with no
\* override and no derivable base version fails instead of completing.
C3_NoEmptyOrBaselessId ==
    \A p \in Callers :
        pc[p] = "done" =>
            /\ ret[p] # <<"">>
            /\ Member(fs[Target].data, "id") # ""
            /\ ~(options.version_id = <<>> /\ ClaimBase = "")

\* C4: whenever no write is under way the target is absent or one complete
\* descriptor, and a write that failed has left it absent (a target that is
\* still the directory the run began with is outside the claim).
C4_AbsentOrComplete ==
    (\A p \in Callers : pc[p] # "write_all") =>
        /\ fs[Target].kind = "file" =>
               fs[Target].data \in {OldData, JsonData(loader, options)}
        /\ \A p \in Callers :
               (pc[p] = "panicked" /\ failed[p] = {"write"}) =>
                   fs[Target].kind # "file"

\* C5: a call in which a filesystem step failed ends by returning an error:
\* it neither goes on nor panics.
C5_FailureReported ==
    \A p \in Callers :
        /\ pc[p] # "panicked"
        /\ failed[p] # {} => pc[p] = "returned_error"

ClaimSideKey == IF options.size = <<"Server">> THEN "server" ELSE "client"

\* a MainClassSpec: one class name, or a mapping from side to class name
IsMainClassSpec(v) ==
    \/ v.t = "String"
    \/ /\ v.t = "Object"
       /\ DOMAIN v.m \subseteq {"client", "server"}
       /\ \A k \in DOMAIN v.m : v.m[k].t = "String"

ClaimMainClass ==
    LET v == loader.launcherMeta.mainClass
    IN  IF v.t = "String" THEN v.s
        ELSE IF ClaimSideKey \in DOMAIN v.m THEN v.m[ClaimSideKey].s
        ELSE ""

\* C6: the mainClass is the value under the requested side's key of a
\* per-side mapping that has it, the scalar itself for both sides, and the
\* empty string, with no error, for a mapping lacking the requested side.
C6_MainClass ==
    \A p \in Callers :
        IsMainClassSpec(loader.launcherMeta.mainClass) =>
            /\ Started(p) => locals[p].main_class = ClaimMainClass
            /\ pc[p] = "done" => Member(fs[Target].data, "mainClass") = ClaimMainClass

C6_Witness ==
    /\ pc[1] = "done"
    /\ options.size = <<"Server">>
    /\ loader.launcherMeta.mainClass.t = "Object"
    /\ DOMAIN loader.launcherMeta.mainClass.m = {"client", "server"}
    /\ IsMainClassSpec(loader.launcherMeta.mainClass)
    /\ Member(fs[Target].data, "mainClass") = "KnotServer"

\* the mapping that lacks the requested side: the empty string is written
C6_WitnessMissingSide ==
    /\ pc[1] = "done"
    /\ options.size = <<>>
    /\ loader.launcherMeta.mainClass.t = "Object"
    /\ DOMAIN loader.launcherMeta.mainClass.m = {"server"}
    /\ Member(fs[Target].data, "mainClass") = ""

ClaimInheritsFrom ==
    IF options.inherits_from # <<>> THEN options.inherits_from[1] ELSE ClaimBase

\* C7: inheritsFrom is the inherits-from override when one is given, else the
\* intermediary version without a mapping selector and "" with one.
C7_InheritsFrom ==
    \A p \in Callers :
        /\ Started(p) => locals[p].inherits_from = ClaimInheritsFrom
        /\ pc[p] = "done" =>
              Member(fs[Target].data, "inheritsFrom") = ClaimInheritsFrom

C7_Witness ==
    /\ pc[1] = "done"
    /\ options.inherits_from = <<>>
    /\ MappingGiven
    /\ loader.intermediary.version = "1.19.4"
    /\ Member(fs[Target].data, "inheritsFrom") = ""

\* C8: in a call whose steps succeed the parent directory is there before the
\* existence check, whatever was at the target is gone before the write, and
\* a call that returns leaves a file that holds exactly the new descriptor.
C8_ReplacedEntirely ==
    \A p \in Callers :
        /\ pc[p] \in {"metadata", "remove_file", "remove_dir_all", "write",
                      "write_all", "done"} =>
               fs[Parent(Target)].kind = "dir"
        /\ (pc[p] = "write" /\ failed[p] = {}) => fs[Target].kind = "absent"
        /\ pc[p] = "write_all" => fs[Target].kind = "file"
        /\ pc[p] = "done" =>
               /\ fs[Target].kind = "file"
               /\ fs[Target].data = locals[p].json_data

\* the call found a directory with content and left the new file
C8_Witness ==
    /\ pc[1] = "done"
    /\ seen[1] = <<[kind |-> "dir", under |-> {"natives"}]>>
    /\ failed[1] = {}
    /\ fs[Target].kind = "file"
    /\ fs[Target].data = locals[1].json_data

\* the call found the older, longer descriptor and left the new file
C8_WitnessFile ==
    /\ pc[1] = "done"
    /\ seen[1] # <<>>
    /\ seen[1][1].kind = "file"
    /\ seen[1][1].data = OldData
    /\ failed[1] = {}
    /\ Len(fs[Target].data) < Len(OldData)

\* C9: the calls of one caller, run in sequence on the same arguments, return
\* the same id and leave a file of the same content.
C9_Idempotent ==
    \A i, j \in DOMAIN history :
        /\ history[i].id = history[j].id
        /\ history[i].entry.kind = "file"
        /\ history[i].entry.data = history[j].entry.data

\* the second run found the first run's file, removed it and returned
C9_Witness ==
    /\ Len(history) = 2
    /\ pc[1] = "done"
    /\ seen[1] = <<history[1].entry>>
    /\ failed[1] = {}
    /\ history[2].entry.ino # history[1].entry.ino

InRegion(p) == pc[p] \in {"remove_file", "remove_dir_all", "write", "write_all"}

\* C10: nothing keeps a call out while another is between its existence check
\* and the end of its write: the check of a call that has come to it can be
\* taken wherever the other call is.
C10_NoMutualExclusion ==
    \A p \in Callers : pc[p] = "metadata" => ENABLED Metadata(p)

\* both calls are between check and write, and one has acted on an entry the
\* other changed since its check
C10_Race ==
    \E p, q \in Callers :
        /\ p # q
        /\ InRegion(p)
        /\ InRegion(q)
        /\ raced[p]
=============================================================================
